---------------------------- MODULE Spec2Model ----------------------------
(***************************************************************************)
(* North Herts Council waste collection source (northherts_gov_uk.py).     *)
(*                                                                         *)
(* Source.fetch resolves address fragments to a property (UPRN) through a  *)
(* chain of address searches, picks one candidate by an additive score,    *)
(* fetches that property's schedule and normalises it into a list of       *)
(* (date, label, icon) collections.                                        *)
(*                                                                         *)
(* Text is modelled as a sequence of one-character strings, so that        *)
(* strip(), lower(), substring tests and the regular expressions of the    *)
(* source are computed, not assumed.                                       *)
(***************************************************************************)
EXTENDS Integers, Sequences, FiniteSets, TLC

VARIABLES
    self,                 \* the Source: its four optional address fragments
    pc,                   \* position of fetch(): start, lookup, select, schedule, done, failed
    search_query,         \* search_query of fetch
    postcode,             \* postcode of fetch
    attempts,             \* `attempts` of _lookup_addresses, lines 234-242
    attempt,              \* index of the next entry of `attempts` in _lookup_addresses
    seen,                 \* `seen` of _lookup_addresses
    requests,             \* every GET issued by the session, in order
    replies,              \* the response to each request, in order
    addresses,            \* list returned by _lookup_addresses
    selected,             \* address returned by _select_address
    payload,              \* document returned by _fetch_waste_collections
    entries,              \* list returned by _build_collections
    result,               \* list returned by fetch
    error                 \* the exception that ended fetch, "" when none

vars == <<self, pc, search_query, postcode, attempts, attempt, seen, requests, replies, addresses, selected, payload, entries,
          result, error>>

-----------------------------------------------------------------------------
(* Bounds of the model.                                                    *)

\* longest address list a search response carries
MaxCandidates == 2
\* most top-level detail entries of a schedule payload
MaxBlocks == 2
\* longest text given to normalise_postcode when it is examined on its own
MaxText == 6

-----------------------------------------------------------------------------
(* Text: str methods used by the source.                                   *)

Uppers == <<"A", "B", "C", "D", "E", "F", "G", "H", "I", "J", "K", "L", "M", "N", "O", "P", "Q", "R", "S", "T", "U", "V", "W", "X", "Y", "Z">>
Lowers == <<"a", "b", "c", "d", "e", "f", "g", "h", "i", "j", "k", "l", "m", "n", "o", "p", "q", "r", "s", "t", "u", "v", "w", "x", "y", "z">>
Digits == <<"0", "1", "2", "3", "4", "5", "6", "7", "8", "9">>

Range(s) == {s[i] : i \in 1..Len(s)}
UpperSet == Range(Uppers)
LowerSet == Range(Lowers)
DigitSet == Range(Digits)
ToLower == [c \in UpperSet |-> Lowers[CHOOSE i \in 1..Len(Uppers) : Uppers[i] = c]]
ToUpper == [c \in LowerSet |-> Uppers[CHOOSE i \in 1..Len(Lowers) : Lowers[i] = c]]

IsAlpha(c) == c \in UpperSet \/ c \in LowerSet
IsDigit(c) == c \in DigitSet
IsAlnum(c) == IsAlpha(c) \/ IsDigit(c)
IsSpace(c) == c \in {" ", "\t", "\n", "\r", "\f"}
\* \w of the re module
IsWord(c) == IsAlnum(c) \/ c = "_"

LowerChar(c) == IF c \in UpperSet THEN ToLower[c] ELSE c
UpperChar(c) == IF c \in LowerSet THEN ToUpper[c] ELSE c

\* str.lower
Lower(s) == [i \in 1..Len(s) |-> LowerChar(s[i])]
\* str.upper
Upper(s) == [i \in 1..Len(s) |-> UpperChar(s[i])]

\* str.strip
Strip(s) ==
    LET keep == {i \in 1..Len(s) : ~IsSpace(s[i])}
    IN  IF keep = {} THEN <<>>
        ELSE LET lo == CHOOSE i \in keep : \A j \in keep : i <= j
                 hi == CHOOSE i \in keep : \A j \in keep : j <= i
             IN  SubSeq(s, lo, hi)

\* needle in hay
Contains(needle, hay) ==
    \E i \in 0..(Len(hay) - Len(needle)) : SubSeq(hay, i + 1, i + Len(needle)) = needle

\* s.endswith(suffix)
EndsWith(s, suffix) ==
    /\ Len(suffix) <= Len(s)
    /\ SubSeq(s, Len(s) - Len(suffix) + 1, Len(s)) = suffix

RECURSIVE Join(_, _)
\* sep.join(parts)
Join(parts, sep) ==
    IF parts = <<>> THEN <<>>
    ELSE IF Len(parts) = 1 THEN parts[1]
    ELSE parts[1] \o sep \o Join(Tail(parts), sep)

\* Optional text: None, or a str
None == [some |-> FALSE, s |-> <<>>]
Some(s) == [some |-> TRUE, s |-> s]
\* bool(x) of an optional str
Truthy(o) == o.some /\ o.s # <<>>
\* (x or "")
OrEmpty(o) == IF Truthy(o) THEN o.s ELSE <<>>

-----------------------------------------------------------------------------
(* normalise_postcode and POSTCODE_PATTERN.                                *)

\* index of the first character at or after i that is not white space (\s*)
SkipSpace(t, i) ==
    IF \E j \in i..Len(t) : ~IsSpace(t[j])
    THEN CHOOSE j \in i..Len(t) : ~IsSpace(t[j]) /\ \A k \in i..(j - 1) : IsSpace(t[k])
    ELSE Len(t) + 1

\* ([A-Z]{1,2}\d[A-Z\d]?)\s*(\d[A-Z]{2}), IGNORECASE: the outward code is
\* t[i..e] with its digit at d, the inward code starts at q
MatchesAt(t, i, d, e, q) ==
    /\ q + 2 <= Len(t)
    /\ \A j \in i..(d - 1) : IsAlpha(t[j])
    /\ IsDigit(t[d])
    /\ e > d => IsAlnum(t[e])
    /\ IsDigit(t[q])
    /\ IsAlpha(t[q + 1])
    /\ IsAlpha(t[q + 2])

\* POSTCODE_PATTERN matches at i with nl outward letters and opt (0 or 1)
\* trailing outward characters
PostcodeMatchAt(t, i, nl, opt) ==
    MatchesAt(t, i, i + nl, i + nl + opt, SkipSpace(t, i + nl + opt + 1))

\* a is tried before b: leftmost start, then the greedy alternatives first
\* (two letters before one, the optional character present before absent)
TriedBefore(a, b) ==
    \/ a[1] < b[1]
    \/ a[1] = b[1] /\ a[2] > b[2]
    \/ a[1] = b[1] /\ a[2] = b[2] /\ a[3] >= b[3]

FirstMatch(all) ==
    IF all = {} THEN <<>>
    ELSE <<CHOOSE m \in all : \A o \in all : TriedBefore(m, o)>>

\* the match POSTCODE_PATTERN.search finds, as <<[i, nl, opt]>>; <<>> if none
PostcodeSearch(t) ==
    FirstMatch({m \in (1..Len(t)) \X {1, 2} \X {0, 1} : PostcodeMatchAt(t, m[1], m[2], m[3])})

\* the groups joined as they were written, .upper() left out
Canonical_as_written(t, i, e, q) ==
    Some(SubSeq(t, i, e) \o <<" ">> \o SubSeq(t, q, q + 2))

\* f"{match.group(1).upper()} {match.group(2).upper()}"
Canonical(t, i, e, q) ==
    Some(Upper(SubSeq(t, i, e)) \o <<" ">> \o Upper(SubSeq(t, q, q + 2)))

GroupsOf(t, i, e) == Canonical(t, i, e, SkipSpace(t, e + 1))

MatchResult(t, found) ==
    IF found = <<>> THEN None
    ELSE GroupsOf(t, found[1][1], found[1][1] + found[1][2] + found[1][3])

normalise_postcode(text) ==
    IF ~Truthy(text) THEN None ELSE MatchResult(text.s, PostcodeSearch(text.s))

-----------------------------------------------------------------------------
(* Address records and _address_to_string.                                 *)

ADDRESS_FIELDS ==
    <<"fullAddress", "singleLineAddress", "address", "addressLine1", "addressLine2",
      "addressLine3", "town", "buildingName", "buildingNumber", "propertyNumber",
      "street", "postcode">>

\* address.get(key): an address is a mapping from some field names to text
AddrGet(address, key) == IF key \in DOMAIN address THEN Some(address[key]) ELSE None

_address_to_string(address) ==
    LET Present(key) == Truthy(AddrGet(address, key))
        keys == SelectSeq(ADDRESS_FIELDS, Present)
    IN  Strip(Join([i \in 1..Len(keys) |-> address[keys[i]]], <<" ">>))

-----------------------------------------------------------------------------
(* Source._compose_search_query and the attempts of _lookup_addresses.     *)

\* " ".join(part.strip() for part in parts if isinstance(part, str) and part.strip())
JoinParts(parts) ==
    LET NonBlank(p) == p.some /\ Strip(p.s) # <<>>
        kept == SelectSeq(parts, NonBlank)
    IN  Join([i \in 1..Len(kept) |-> Strip(kept[i].s)], <<" ">>)

_compose_search_query(this) ==
    JoinParts(<<this._address_name_numer, this._address_street, this._street_town,
                this._address_postcode>>)

\* address_line of _lookup_addresses, lines 229-231
address_line(this) == JoinParts(<<this._address_name_numer, this._address_street>>)

\* the list with one more entry, ("address", self._address_street)
AttemptsOf_extra(this, query, pcode) ==
    <<[param |-> "postcode", value |-> pcode],
      [param |-> "postcode", value |-> this._address_postcode],
      [param |-> "address", value |-> Some(query)],
      [param |-> "query", value |-> Some(query)],
      [param |-> "address", value |-> Some(address_line(this))],
      [param |-> "query", value |-> Some(address_line(this))],
      [param |-> "query", value |-> this._address_street],
      [param |-> "address", value |-> this._address_street]>>

\* the list `attempts` of _lookup_addresses(query, postcode), lines 234-242
AttemptsOf(this, query, pcode) ==
    <<[param |-> "postcode", value |-> pcode],
      [param |-> "postcode", value |-> this._address_postcode],
      [param |-> "address", value |-> Some(query)],
      [param |-> "query", value |-> Some(query)],
      [param |-> "address", value |-> Some(address_line(this))],
      [param |-> "query", value |-> Some(address_line(this))],
      [param |-> "query", value |-> this._address_street]>>


\* cleaned = (value or "").strip()
Cleaned(a) == Strip(OrEmpty(a.value))
\* key = (param, cleaned.lower())
Key(param, cleaned) == <<param, Lower(cleaned)>>

\* params={param: cleaned}, line 254
AddressRequest(current) ==
    [endpoint |-> "addresses", param |-> current.param, text |-> current.cleaned]
WasteRequest(uprn) == [endpoint |-> "wastecollections", param |-> "uprn", text |-> uprn]

-----------------------------------------------------------------------------
(* Source._select_address.                                                 *)

W_POSTCODE_EXACT == 100
W_POSTCODE_TEXT == 60
W_STREET == 30
W_NUMBER == 25
W_TOWN == 15
W_QUERY == 10

\* \b at offset p of text (between text[p] and text[p + 1])
WordBoundary(text, p) ==
    LET left == p >= 1 /\ IsWord(text[p])
        right == p + 1 <= Len(text) /\ IsWord(text[p + 1])
    IN  left # right

\* re.search(rf"\b{re.escape(number)}\b", text)
WholeWord(number, text) ==
    \E i \in 0..(Len(text) - Len(number)) :
        /\ SubSeq(text, i + 1, i + Len(number)) = number
        /\ WordBoundary(text, i)
        /\ WordBoundary(text, i + Len(number))

query_lower(query) == Lower(query)
postcode_lower(pcode) == IF Truthy(pcode) THEN Some(Lower(pcode.s)) ELSE None

\* `if` in place of `elif`: both postcode additions can apply
PostcodeBranch_two_ifs(lowered, candidate_postcode, target) ==
    (IF Truthy(target) /\ Truthy(candidate_postcode)
        /\ Lower(candidate_postcode.s) = target.s
     THEN W_POSTCODE_EXACT ELSE 0)
    + (IF Truthy(target) /\ Contains(target.s, lowered) THEN W_POSTCODE_TEXT ELSE 0)
\* the if / elif on the postcode, lines 286-290
PostcodeBranch(lowered, candidate_postcode, target) ==
    IF Truthy(target) /\ Truthy(candidate_postcode)
       /\ Lower(candidate_postcode.s) = target.s
    THEN W_POSTCODE_EXACT
    ELSE IF Truthy(target) /\ Contains(target.s, lowered)
    THEN W_POSTCODE_TEXT
    ELSE 0

PostcodeScore(address, lowered, pcode) ==
    PostcodeBranch(lowered, normalise_postcode(AddrGet(address, "postcode")),
                   postcode_lower(pcode))

\* lines 292-293
StreetScore(this, lowered) ==
    IF Truthy(this._address_street) /\ Contains(Lower(this._address_street.s), lowered)
    THEN W_STREET ELSE 0

\* lines 295-298
NumberScore(this, lowered) ==
    IF Truthy(this._address_name_numer)
       /\ WholeWord(Lower(Strip(this._address_name_numer.s)), lowered)
    THEN W_NUMBER ELSE 0

\* lines 300-301
TownScore(this, lowered) ==
    IF Truthy(this._street_town) /\ Contains(Lower(this._street_town.s), lowered)
    THEN W_TOWN ELSE 0

\* lines 303-304
QueryScore(lowered, query) ==
    IF query # <<>> /\ Contains(query_lower(query), lowered)
    THEN W_QUERY ELSE 0

\* the five additions of lines 284-304
Additions(this, address, lowered, query, pcode) ==
    PostcodeScore(address, lowered, pcode) + StreetScore(this, lowered)
        + NumberScore(this, lowered) + TownScore(this, lowered) + QueryScore(lowered, query)

\* `score` at line 306
Score(this, address, query, pcode) ==
    Additions(this, address, Lower(_address_to_string(address)), query, pcode)

\* `>=` in place of `>`
Better_or_equal(score, best_score) == score >= best_score
\* if score > best_score, line 306
Better(score, best_score) == score > best_score

\* lines 306-308: best is [score, index]
Keep(best, score, i) ==
    IF Better(score, best.score) THEN [score |-> score, index |-> i] ELSE best

RECURSIVE BestLoop(_, _, _, _, _)
\* The for loop of lines 281-308 over the first n candidates: [score, index]
\* of the best one; index 0 is best_address = None.
BestLoop(this, list, query, pcode, n) ==
    IF n = 0 THEN [score |-> -1, index |-> 0]
    ELSE Keep(BestLoop(this, list, query, pcode, n - 1),
              Score(this, list[n], query, pcode), n)

\* lines 310-317: index (from 1) of the address returned
Fallback(best) ==
    IF best.index = 0 THEN 1
    ELSE IF best.score <= 0 THEN 1
    ELSE best.index

SelectIndex(this, list, query, pcode) ==
    Fallback(BestLoop(this, list, query, pcode, Len(list)))

_select_address(this, list, query, pcode) ==
    IF list = <<>> THEN [ok |-> FALSE, error |-> "Address lookup returned no results."]
    ELSE [ok |-> TRUE, address |-> list[SelectIndex(this, list, query, pcode)]]

-----------------------------------------------------------------------------
(* JSON values of the schedule payload.                                    *)
(*                                                                         *)
(* A string in a date position is kept as its format and its digits, not   *)
(* as characters: fmt names the shape of the text, (y, m, d) the numbers   *)
(* written in it.                                                          *)
(*   "iso"       2024-03-01                                                *)
(*   "isoZ"      2024-03-01T00:00:00Z                                      *)
(*   "embedded"  Next collection 2024-03-01                                *)
(*   "dmy_slash" 01/03/2024                                                *)
(*   "dmy_dash"  01-03-2024                                                *)
(*   "words"     tomorrow                                                  *)
(*   "blank"     white space only                                          *)
(*   "empty"     the empty string                                          *)
(* A label is text (characters).  Dictionaries are functions from keys to  *)
(* values; lists are sequences.                                            *)

NoneV == [k |-> "none"]
DateStr(fmt, y, m, d) == [k |-> "str", fmt |-> fmt, y |-> y, m |-> m, d |-> d]
Text(s) == [k |-> "text", s |-> s]
Obj(f) == [k |-> "obj", f |-> f]
List(l) == [k |-> "list", l |-> l]

\* dict.get(key)
DictGet(dict, key) == IF key \in DOMAIN dict THEN dict[key] ELSE NoneV

\* bool(value)
TruthyV(v) ==
    CASE v.k = "none" -> FALSE
      [] v.k = "str"  -> v.fmt # "empty"
      [] v.k = "text" -> v.s # <<>>
      [] v.k = "obj"  -> DOMAIN v.f # {}
      [] v.k = "list" -> v.l # <<>>

\* a or b
Or(a, b) == IF TruthyV(a) THEN a ELSE b

-----------------------------------------------------------------------------
(* _parse_date_string.  A date is the number yyyymmdd.                     *)

NoDate == [some |-> FALSE, date |-> 0]
Date(y, m, d) == [some |-> TRUE, date |-> (y * 10000) + (m * 100) + d]

IsLeap(y) == (y % 4 = 0 /\ y % 100 # 0) \/ y % 400 = 0
DaysIn(y, m) ==
    IF m = 2 THEN (IF IsLeap(y) THEN 29 ELSE 28)
    ELSE IF m \in {4, 6, 9, 11} THEN 30 ELSE 31
\* datetime accepts the date: otherwise fromisoformat / strptime raise ValueError
ValidDate(y, m, d) ==
    /\ y \in 1..9999
    /\ m \in 1..12
    /\ d \in 1..DaysIn(y, m)

_parse_date_string(value) ==
    IF value.k # "str" THEN NoDate                          \* None, or not a str
    ELSE IF value.fmt \in {"empty", "blank"} THEN NoDate    \* not candidate
    ELSE IF value.fmt \in {"iso", "isoZ"} /\ ValidDate(value.y, value.m, value.d)
    THEN Date(value.y, value.m, value.d)                    \* fromisoformat
    ELSE IF value.fmt \in {"iso", "isoZ", "embedded"}
            /\ ValidDate(value.y, value.m, value.d)
    THEN Date(value.y, value.m, value.d)                    \* ISO_DATE_PATTERN
    ELSE IF value.fmt \in {"dmy_slash", "dmy_dash"}
            /\ ValidDate(value.y, value.m, value.d)
    THEN Date(value.y, value.m, value.d)                    \* %d/%m/%Y, %d-%m-%Y
    ELSE NoDate

-----------------------------------------------------------------------------
(* _extract_dates.                                                         *)

\* the items a `for` loop or list.extend takes from value: those of a list;
\* none of a falsy value
Iter(v) == IF v.k = "list" THEN v.l ELSE <<>>

\* entry.get("collectionDate") or entry.get("nextCollectionDate") or entry.get("date")
NestedDate(dict) ==
    Or(DictGet(dict, "collectionDate"),
       Or(DictGet(dict, "nextCollectionDate"), DictGet(dict, "date")))

\* the value one entry of futureCollections contributes, lines 164-168
FutureValue(entry) == IF entry.k = "obj" THEN NestedDate(entry.f) ELSE entry

\* next_collection.get raises AttributeError: nextCollection is truthy and no dict
NextCollectionRaises(details) ==
    LET nc == DictGet(details, "nextCollection")
    IN  TruthyV(nc) /\ nc.k # "obj"

\* `values`, lines 161-174, when line 173 does not raise
DateValues(details) ==
    LET nc == DictGet(details, "nextCollection")
        future == Iter(DictGet(details, "futureCollections"))
        next_collection == IF TruthyV(nc) THEN nc.f ELSE <<>>
    IN  <<DictGet(details, "collectionDate"), DictGet(details, "nextCollectionDate"), nc>>
        \o Iter(DictGet(details, "collectionDates"))
        \o [i \in 1..Len(future) |-> FutureValue(future[i])]
        \o <<NestedDate(next_collection)>>

RECURSIVE SortedSeq(_)
\* sorted(S) for a set of numbers
SortedSeq(S) ==
    IF S = {} THEN <<>>
    ELSE LET least == CHOOSE x \in S : \A y \in S : x <= y
         IN  <<least>> \o SortedSeq(S \ {least})

\* the dates kept by the set comprehension of line 176
ParsedDates(values) ==
    {_parse_date_string(values[i]).date :
        i \in {j \in 1..Len(values) : _parse_date_string(values[j]).some}}

_extract_dates(details) ==
    IF NextCollectionRaises(details)
    THEN [ok |-> FALSE, error |-> "AttributeError"]
    ELSE [ok |-> TRUE, dates |-> SortedSeq(ParsedDates(DateValues(details)))]

-----------------------------------------------------------------------------
(* _clean_type_name and _icon_for.                                         *)

\* cleaned[: -len(suffix)].strip() if cleaned.lower().endswith(suffix)
DropSuffix(cleaned, suffix) ==
    IF EndsWith(Lower(cleaned), suffix)
    THEN Strip(SubSeq(cleaned, 1, Len(cleaned) - Len(suffix)))
    ELSE cleaned

\* cleaned or name
OrName(cleaned, name) == IF cleaned # <<>> THEN cleaned ELSE name

\* a variant that also drops a trailing "CollectionDetails"
_clean_type_name_category(name) ==
    OrName(DropSuffix(DropSuffix(DropSuffix(Strip(name), <<"c", "o", "l", "l", "e", "c", "t", "i", "o", "n", "d", "e", "t", "a", "i", "l", "s">>),
                                 <<"c", "o", "l", "l", "e", "c", "t", "i", "o", "n">>), <<"b", "i", "n">>), name)

_clean_type_name(name) ==
    OrName(DropSuffix(DropSuffix(Strip(name), <<"c", "o", "l", "l", "e", "c", "t", "i", "o", "n">>), <<"b", "i", "n">>), name)

ICON_MAP ==
    <<[key |-> <<"R", "e", "f", "u", "s", "e", " ", "C", "o", "l", "l", "e", "c", "t", "i", "o", "n">>, icon |-> "mdi:trash-can"],
      [key |-> <<"R", "e", "f", "u", "s", "e">>, icon |-> "mdi:trash-can"],
      [key |-> <<"R", "e", "s", "i", "d", "u", "a", "l", " ", "W", "a", "s", "t", "e">>, icon |-> "mdi:trash-can"],
      [key |-> <<"M", "i", "x", "e", "d", " ", "R", "e", "c", "y", "c", "l", "i", "n", "g", " ", "C", "o", "l", "l", "e", "c", "t", "i", "o", "n">>, icon |-> "mdi:recycle"],
      [key |-> <<"M", "i", "x", "e", "d", " ", "R", "e", "c", "y", "c", "l", "i", "n", "g">>, icon |-> "mdi:recycle"],
      [key |-> <<"D", "r", "y", " ", "R", "e", "c", "y", "c", "l", "i", "n", "g">>, icon |-> "mdi:recycle"],
      [key |-> <<"G", "a", "r", "d", "e", "n", " ", "C", "o", "l", "l", "e", "c", "t", "i", "o", "n">>, icon |-> "mdi:leaf"],
      [key |-> <<"G", "a", "r", "d", "e", "n", " ", "W", "a", "s", "t", "e">>, icon |-> "mdi:leaf"],
      [key |-> <<"F", "o", "o", "d", " ", "C", "o", "l", "l", "e", "c", "t", "i", "o", "n">>, icon |-> "mdi:food-apple"],
      [key |-> <<"F", "o", "o", "d", " ", "W", "a", "s", "t", "e">>, icon |-> "mdi:food-apple"],
      [key |-> <<"P", "a", "p", "e", "r", "/", "C", "a", "r", "d", " ", "C", "o", "l", "l", "e", "c", "t", "i", "o", "n">>, icon |-> "mdi:package-variant"],
      [key |-> <<"P", "a", "p", "e", "r", " ", "&", " ", "C", "a", "r", "d">>, icon |-> "mdi:package-variant"]>>

_ICON_KEYWORDS ==
    <<[key |-> <<"r", "e", "f", "u", "s", "e">>, icon |-> "mdi:trash-can"],
      [key |-> <<"r", "e", "s", "i", "d", "u", "a", "l">>, icon |-> "mdi:trash-can"],
      [key |-> <<"r", "e", "c", "y", "c", "l", "e">>, icon |-> "mdi:recycle"],
      [key |-> <<"r", "e", "c", "y", "c", "l", "i", "n", "g">>, icon |-> "mdi:recycle"],
      [key |-> <<"g", "a", "r", "d", "e", "n">>, icon |-> "mdi:leaf"],
      [key |-> <<"f", "o", "o", "d">>, icon |-> "mdi:food-apple"],
      [key |-> <<"p", "a", "p", "e", "r">>, icon |-> "mdi:package-variant"],
      [key |-> <<"c", "a", "r", "d">>, icon |-> "mdi:package-variant"]>>

\* the icon of the first of the entries of table at the indices hits; ""
\* stands for None
FirstIcon(table, hits) ==
    IF hits = {} THEN ""
    ELSE table[CHOOSE i \in hits : \A j \in hits : i <= j].icon

\* label in ICON_MAP, line 118
ExactHits(label) == {i \in 1..Len(ICON_MAP) : ICON_MAP[i].key = label}
\* keyword in lowered, line 122
KeywordHits(lowered) ==
    {i \in 1..Len(_ICON_KEYWORDS) : Contains(_ICON_KEYWORDS[i].key, lowered)}

_icon_for(label) ==
    IF ExactHits(label) # {} THEN FirstIcon(ICON_MAP, ExactHits(label))
    ELSE FirstIcon(_ICON_KEYWORDS, KeywordHits(Lower(label)))

-----------------------------------------------------------------------------
(* Source._collection_items and Source._build_collections.                 *)
(*                                                                         *)
(* A schedule document is [collections, items]: the entries of its         *)
(* "collections" mapping (<<>> when absent or empty) and its other         *)
(* top-level entries, each in the order of the document.  An entry is      *)
(* [key, value]; a payload holds the document at top level or under        *)
(* "wasteCollectionDates" / "WasteCollectionDates" (wrapper).              *)

RECURSIVE ToStr(_)
\* str(n) for n >= 0
ToStr(n) == IF n < 10 THEN <<Digits[n + 1]>> ELSE ToStr(n \div 10) \o <<Digits[(n % 10) + 1]>>

\* payload.get("wasteCollectionDates") or payload.get("WasteCollectionDates") or payload
CollectionData(document) ==
    [collections |-> document.collections, items |-> document.items]

\* the (key, details) pairs one top-level entry contributes, lines 366-374
ItemsOf(entry) ==
    IF ~EndsWith(Lower(entry.key), <<"c", "o", "l", "l", "e", "c", "t", "i", "o", "n", "d", "e", "t", "a", "i", "l", "s">>) THEN <<>>
    ELSE IF entry.value.k = "list"
    THEN LET l == entry.value.l
             kept == SelectSeq([i \in 1..Len(l) |-> [idx |-> i, entry |-> l[i]]],
                                LAMBDA e : TruthyV(e.entry))
         IN  [i \in 1..Len(kept) |->
                 [key |-> entry.key \o <<"_">> \o ToStr(kept[i].idx), value |-> kept[i].entry]]
    ELSE IF TruthyV(entry.value) THEN <<entry>>
    ELSE <<>>

RECURSIVE Flatten(_)
Flatten(seqs) == IF seqs = <<>> THEN <<>> ELSE seqs[1] \o Flatten(Tail(seqs))

_collection_items(collection_data) ==
    IF collection_data.collections # <<>> THEN collection_data.collections
    ELSE Flatten([i \in 1..Len(collection_data.items) |-> ItemsOf(collection_data.items[i])])

\* raw_label, lines 342-346
RawLabel(key, details) ==
    LET v == Or(DictGet(details, "containerDescription"),
                Or(DictGet(details, "containerName"), DictGet(details, "collectionType")))
    IN  IF TruthyV(v) THEN v.s ELSE key

Collection(date, t, icon) == [date |-> date, t |-> t, icon |-> icon]

\* the `seen` test left out
AlreadySeen_never(identifier, seen_pairs) == FALSE
\* if identifier in seen: continue, lines 350-352
AlreadySeen(identifier, seen_pairs) == identifier \in seen_pairs

RECURSIVE AddDates(_, _, _, _, _)
\* the inner loop, lines 349-354, from date i on; acc is [entries, seen]
AddDates(dates, i, label, icon, acc) ==
    IF i > Len(dates) THEN acc
    ELSE LET identifier == <<dates[i], label>>
         IN  AddDates(dates, i + 1, label, icon,
                 IF AlreadySeen(identifier, acc.seen) THEN acc
                 ELSE [entries |-> Append(acc.entries, Collection(dates[i], label, icon)),
                       seen |-> acc.seen \cup {identifier}])

RECURSIVE BuildLoop(_, _, _)
\* lines 347-354 for one pair, then the rest of the loop
Emit(pairs, i, acc, label, got) ==
    IF ~got.ok THEN [ok |-> FALSE, error |-> got.error]
    ELSE BuildLoop(pairs, i + 1, AddDates(got.dates, 1, label, _icon_for(label), acc))

\* the outer loop, lines 339-354, from pair i on
BuildLoop(pairs, i, acc) ==
    IF i > Len(pairs) THEN [ok |-> TRUE, entries |-> acc.entries]
    ELSE IF ~TruthyV(pairs[i].value) THEN BuildLoop(pairs, i + 1, acc)
    ELSE Emit(pairs, i, acc, _clean_type_name(RawLabel(pairs[i].key, pairs[i].value.f)),
              _extract_dates(pairs[i].value.f))

_build_collections(document) ==
    BuildLoop(_collection_items(CollectionData(document)), 1, [entries |-> <<>>, seen |-> {}])

\* x placed after the elements of a sorted list that are not later than it
Insert(sorted, x) ==
    SelectSeq(sorted, LAMBDA e : e.date <= x.date) \o <<x>>
        \o SelectSeq(sorted, LAMBDA e : e.date > x.date)

\* the sort left out
SortByDate_unsorted(list) == list

RECURSIVE SortByDate(_)
\* entries.sort(key=lambda item: item.date): ascending and stable
SortByDate(list) ==
    IF list = <<>> THEN <<>>
    ELSE Insert(SortByDate(SubSeq(list, 1, Len(list) - 1)), list[Len(list)])

-----------------------------------------------------------------------------
(* Inputs: the fragments given to Source(...), and what the server may     *)
(* answer.                                                                 *)

\* Source(address_name_numer, address_street, street_town, address_postcode)
Source(numer, street, town, pcode) ==
    [_address_name_numer |-> numer, _address_street |-> street, _street_town |-> town,
     _address_postcode |-> pcode]

NumerPool == {None, Some(<<"4">>)}
StreetPool == {None, Some(<<"M", "i", "l", "l", " ", "R", "d">>), Some(<<" ", "M", "i", "l", "l", " ", "R", "d">>)}
TownPool == {None, Some(<<"W", "a", "r", "e">>)}
PostcodePool == {Some(<<" ", " ">>), Some(<<"s", "g", "6", " ", "4", "e", "g", " ">>), Some(<<"s", "g", "6", "4", "e", "g">>)}

AddressPool ==
    {[fullAddress |-> <<"4", " ", "M", "i", "l", "l", " ", "R", "d">>, town |-> <<"W", "a", "r", "e">>, postcode |-> <<"S", "G", "6", " ", "4", "E", "G">>,
      uprn |-> <<"U", "1">>],
     [fullAddress |-> <<"1", "4", " ", "M", "i", "l", "l", " ", "R", "d">>, postcode |-> <<"s", "g", "6", "4", "e", "g">>, uprn |-> <<"U", "2">>],
     [fullAddress |-> <<"M", "i", "l", "l", " ", "R", "d", " ", "S", "G", "6", "4", "E", "G">>, uprn |-> <<>>],
     [address |-> <<"4", " ", "H", "i", "g", "h", " ", "S", "t", " ", "S", "G", "6", " ", "4", "E", "G">>]}

\* the sequences of at most n distinct elements of S
DistinctSeqs(S, n) ==
    UNION {{s \in [1..k -> S] : \A i, j \in 1..k : s[i] = s[j] => i = j} : k \in 0..n}

AddressLists == DistinctSeqs(AddressPool, MaxCandidates)

\* what session.get(.../addresses) can answer: a non-success status, a
\* document without an "addresses" list, a document with one
AddressResponses ==
    {[status |-> "error", has_list |-> FALSE, addresses |-> <<>>],
     [status |-> "ok", has_list |-> FALSE, addresses |-> <<>>]}
    \cup {[status |-> "ok", has_list |-> TRUE, addresses |-> l] : l \in AddressLists}

EmptyDict == [x \in {} |-> NoneV]

RefuseBlock == Obj([collectionDate |-> DateStr("iso", 2024, 3, 4)])
RecyclingBlock == Obj([nextCollection |-> Obj([date |-> DateStr("iso", 2024, 3, 1)])])
FirstRefuse ==
    Obj([containerDescription |-> Text(<<"R", "e", "f", "u", "s", "e", " ", "C", "o", "l", "l", "e", "c", "t", "i", "o", "n">>),
         collectionDates |-> List(<<DateStr("isoZ", 2024, 3, 1), DateStr("words", 0, 0, 0),
                                    DateStr("dmy_slash", 2024, 3, 1)>>)])
SecondRefuse ==
    Obj([containerName |-> Text(<<"R", "e", "f", "u", "s", "e">>),
         nextCollectionDate |-> DateStr("iso", 2024, 2, 30),
         futureCollections |-> List(<<Obj([date |-> DateStr("iso", 2024, 3, 1)]),
                                      DateStr("embedded", 2024, 2, 28)>>)])
ScalarNext == Obj([nextCollection |-> DateStr("iso", 2024, 3, 1)])
Unparseable == Obj([collectionDate |-> DateStr("words", 0, 0, 0),
                    nextCollection |-> DateStr("empty", 0, 0, 0)])

ItemPool ==
    {[key |-> <<"R", "e", "f", "u", "s", "e", "C", "o", "l", "l", "e", "c", "t", "i", "o", "n", "D", "e", "t", "a", "i", "l", "s">>, value |-> RefuseBlock],
     [key |-> <<"R", "e", "c", "y", "c", "l", "i", "n", "g", "C", "o", "l", "l", "e", "c", "t", "i", "o", "n", "D", "e", "t", "a", "i", "l", "s">>, value |-> RecyclingBlock],
     [key |-> <<"b", "i", "n", "C", "o", "l", "l", "e", "c", "t", "i", "o", "n", "D", "e", "t", "a", "i", "l", "s">>,
      value |-> List(<<FirstRefuse, Obj(EmptyDict), SecondRefuse>>)],
     [key |-> <<"F", "o", "o", "d", "C", "o", "l", "l", "e", "c", "t", "i", "o", "n", "D", "e", "t", "a", "i", "l", "s">>, value |-> ScalarNext]}

FixedPayloads ==
    {[wrapper |-> "WasteCollectionDates", collections |-> <<>>,
      items |-> <<[key |-> <<"n", "o", "t", "e", "s">>, value |-> RefuseBlock],
                  [key |-> <<"P", "a", "p", "e", "r", "C", "o", "l", "l", "e", "c", "t", "i", "o", "n", "D", "e", "t", "a", "i", "l", "s">>, value |-> Unparseable]>>],
     [wrapper |-> "wasteCollectionDates",
      collections |-> <<[key |-> <<"G", "a", "r", "d", "e", "n", " ", "B", "i", "n">>,
                         value |-> Obj([collectionDate |-> DateStr("dmy_dash", 2024, 3, 4)])],
                        [key |-> <<"G", "l", "a", "s", "s">>, value |-> Obj(EmptyDict)],
                        [key |-> <<"R", "e", "f", "u", "s", "e", " ", "C", "o", "l", "l", "e", "c", "t", "i", "o", "n">>,
                         value |-> Obj([nextCollectionDate |-> DateStr("iso", 2024, 3, 1)])]>>,
      items |-> <<>>],
     [wrapper |-> "", collections |-> <<>>,
      items |-> <<[key |-> <<"G", "l", "a", "s", "s", "C", "o", "l", "l", "e", "c", "t", "i", "o", "n", "D", "e", "t", "a", "i", "l", "s">>, value |-> Obj(EmptyDict)],
                  [key |-> <<"b", "i", "n", "C", "o", "l", "l", "e", "c", "t", "i", "o", "n", "D", "e", "t", "a", "i", "l", "s">>, value |-> List(<<Obj(EmptyDict)>>)]>>]}

PayloadPool ==
    {[wrapper |-> "", collections |-> <<>>, items |-> s] : s \in DistinctSeqs(ItemPool, MaxBlocks)}
    \cup FixedPayloads

Sources ==
    {Source(n, s, t, p) : n \in NumerPool, s \in StreetPool, t \in TownPool, p \in PostcodePool}

\* _select_address(addresses, search_query, postcode) for each Source and each
\* list the search can return, line 200; search_query and postcode are those
\* of lines 196-197
Chosen ==
    {[this |-> this, addresses |-> list,
      chosen |-> _select_address(this, list, _compose_search_query(this),
                                 normalise_postcode(this._address_postcode))] :
         this \in Sources, list \in AddressLists}

\* each document the server can send, with what _build_collections makes
\* of it, line 206
Built == {[payload |-> p, built |-> _build_collections(p)] : p \in PayloadPool}

NoPayload == [wrapper |-> "", collections |-> <<>>, items |-> <<>>]

\* what session.get(.../wastecollections/<uprn>) can answer, and `entries` of
\* line 206 for each answer
WasteResponses ==
    {[status |-> "error", payload |-> NoPayload,
      built |-> [ok |-> TRUE, entries |-> <<>>]]}
    \cup {[status |-> "ok", payload |-> b.payload, built |-> b.built] : b \in Built}

-----------------------------------------------------------------------------
(* Source.fetch as a state machine: one step per network call.             *)

\* raise_for_status left out: a non-success response is read like any other
RaisesForStatus_never(response) == FALSE
\* response.raise_for_status() raises
RaisesForStatus(response) == response.status # "ok"
\* `if addresses_data:` in place of the isinstance test
IsList_truthy(response) == response.has_list /\ response.addresses # <<>>
\* isinstance(addresses_data, list), line 260
IsList(response) == response.has_list
\* the `seen` test left out
AlreadyTried_never(key, tried) == FALSE
\* key in seen, line 248
AlreadyTried(key, tried) == key \in tried
\* `uprn is None` in place of `not uprn`
NoUprn_none_only(uprn) == ~uprn.some
\* not uprn, line 202
NoUprn(uprn) == ~Truthy(uprn)

\* the test for an empty list left out
NoEntries_never(list) == FALSE
\* not entries, line 207
NoEntries(list) == list = <<>>

Fail(message) == pc' = "failed" /\ error' = message

Init ==
    /\ self \in Sources
    /\ pc = "start"
    /\ search_query = <<>>
    /\ postcode = None
    /\ attempts = <<>>
    /\ attempt = 1
    /\ seen = {}
    /\ requests = <<>>
    /\ replies = <<>>
    /\ addresses = <<>>
    /\ selected = EmptyDict
    /\ payload = NoPayload
    /\ entries = <<>>
    /\ result = <<>>
    /\ error = ""

\* fetch, lines 193-199, and _lookup_addresses up to its loop, lines 229-242
Start ==
    /\ pc = "start"
    /\ search_query' = _compose_search_query(self)
    /\ postcode' = normalise_postcode(self._address_postcode)
    /\ attempts' = AttemptsOf(self, search_query', postcode')
    /\ pc' = "lookup"
    /\ UNCHANGED <<self, attempt, seen, requests, replies, addresses, selected, payload,
                   entries, result, error>>

\* the entry the loop of line 243 is at, with `cleaned` and `key` of lines
\* 244 and 247
Current(a, cleaned) ==
    [param |-> a.param, cleaned |-> cleaned, key |-> Key(a.param, cleaned)]
AtAttempt ==
    UNION {{Current(a, cleaned) : cleaned \in {Cleaned(a)}} : a \in {attempts[attempt]}}

\* if not cleaned: continue
LookupSkipBlank ==
    /\ pc = "lookup" /\ attempt <= Len(attempts)
    /\ \E current \in AtAttempt : current.cleaned = <<>>
    /\ attempt' = attempt + 1
    /\ UNCHANGED <<self, attempts, pc, search_query, postcode, seen, requests, replies, addresses,
                   selected, payload, entries, result, error>>

\* if key in seen: continue
LookupSkipSeen ==
    /\ pc = "lookup" /\ attempt <= Len(attempts)
    /\ \E current \in AtAttempt :
           /\ current.cleaned # <<>>
           /\ AlreadyTried(current.key, seen)
    /\ attempt' = attempt + 1
    /\ UNCHANGED <<self, attempts, pc, search_query, postcode, seen, requests, replies, addresses,
                   selected, payload, entries, result, error>>

\* the loop reaches the request of lines 250-256
CanIssue(current) ==
    /\ current.cleaned # <<>>
    /\ ~AlreadyTried(current.key, seen)

\* the request of lines 250-256 and its response
Issue(current, response) ==
    /\ seen' = seen \cup {current.key}
    /\ requests' = Append(requests, AddressRequest(current))
    /\ replies' = Append(replies, response)

\* response.raise_for_status() raises: fetch ends
LookupHttpError ==
    /\ pc = "lookup" /\ attempt <= Len(attempts)
    /\ \E current \in AtAttempt :
        /\ CanIssue(current)
        /\ \E response \in AddressResponses :
            /\ RaisesForStatus(response)
            /\ Issue(current, response)
            /\ Fail("HTTPError")
            /\ UNCHANGED <<self, attempts, search_query, postcode, attempt, addresses, selected,
                           payload, entries, result>>

\* no list under "addresses": next attempt
LookupNoList ==
    /\ pc = "lookup" /\ attempt <= Len(attempts)
    /\ \E current \in AtAttempt :
        /\ CanIssue(current)
        /\ \E response \in AddressResponses :
            /\ ~RaisesForStatus(response)
            /\ ~IsList(response)
            /\ Issue(current, response)
            /\ attempt' = attempt + 1
            /\ UNCHANGED <<self, attempts, pc, search_query, postcode, addresses, selected, payload,
                           entries, result, error>>

\* return addresses_data
LookupReturn ==
    /\ pc = "lookup" /\ attempt <= Len(attempts)
    /\ \E current \in AtAttempt :
        /\ CanIssue(current)
        /\ \E response \in AddressResponses :
            /\ ~RaisesForStatus(response)
            /\ IsList(response)
            /\ Issue(current, response)
            /\ addresses' = response.addresses
            /\ pc' = "select"
            /\ UNCHANGED <<self, attempts, search_query, postcode, attempt, selected, payload,
                           entries, result, error>>

\* the loop ends: raise ValueError, line 263
LookupExhausted ==
    /\ pc = "lookup" /\ attempt > Len(attempts)
    /\ Fail("No matching addresses were returned by the API.")
    /\ UNCHANGED <<self, attempts, search_query, postcode, attempt, seen, requests, replies,
                   addresses, selected, payload, entries, result>>

\* _select_address raises, line 273
SelectNoCandidates ==
    /\ pc = "select"
    /\ \E call \in {c \in Chosen : c.this = self /\ c.addresses = addresses} :
           /\ ~call.chosen.ok
           /\ Fail(call.chosen.error)
    /\ UNCHANGED <<self, attempts, search_query, postcode, attempt, seen, requests, replies,
                   addresses, selected, payload, entries, result>>

\* lines 200-203 when the selected address has no UPRN
SelectNoUprn ==
    /\ pc = "select"
    /\ \E call \in {c \in Chosen : c.this = self /\ c.addresses = addresses} :
           /\ call.chosen.ok
           /\ NoUprn(AddrGet(call.chosen.address, "uprn"))
           /\ selected' = call.chosen.address
    /\ Fail("Selected address does not expose a UPRN.")
    /\ UNCHANGED <<self, attempts, search_query, postcode, attempt, seen, requests, replies,
                   addresses, payload, entries, result>>

\* lines 200-203 when it has one
SelectAddress ==
    /\ pc = "select"
    /\ \E call \in {c \in Chosen : c.this = self /\ c.addresses = addresses} :
           /\ call.chosen.ok
           /\ ~NoUprn(AddrGet(call.chosen.address, "uprn"))
           /\ selected' = call.chosen.address
    /\ pc' = "schedule"
    /\ UNCHANGED <<self, attempts, search_query, postcode, attempt, seen, requests, replies,
                   addresses, payload, entries, result, error>>

\* _fetch_waste_collections: the request of line 326 and its response
IssueWaste(response) ==
    /\ requests' = Append(requests, WasteRequest(AddrGet(selected, "uprn").s))
    /\ replies' = Append(replies, [status |-> response.status, has_list |-> FALSE,
                                   addresses |-> <<>>])

\* response.raise_for_status() raises, line 327
ScheduleHttpError ==
    /\ pc = "schedule"
    /\ \E response \in WasteResponses :
        /\ RaisesForStatus(response)
        /\ IssueWaste(response)
        /\ Fail("HTTPError")
        /\ UNCHANGED <<self, attempts, search_query, postcode, attempt, seen, addresses,
                       selected, payload, entries, result>>

\* lines 205-206 when _build_collections raises
ScheduleRaises ==
    /\ pc = "schedule"
    /\ \E response \in WasteResponses :
        /\ ~RaisesForStatus(response)
        /\ \E built \in {response.built} :
               /\ ~built.ok
               /\ Fail(built.error)
        /\ IssueWaste(response)
        /\ payload' = response.payload
        /\ UNCHANGED <<self, attempts, search_query, postcode, attempt, seen, addresses,
                       selected, entries, result>>

\* lines 205-208 when there are no entries
ScheduleEmpty ==
    /\ pc = "schedule"
    /\ \E response \in WasteResponses :
        /\ ~RaisesForStatus(response)
        /\ \E built \in {response.built} :
               /\ built.ok
               /\ NoEntries(built.entries)
               /\ entries' = built.entries
        /\ IssueWaste(response)
        /\ payload' = response.payload
        /\ Fail("No collection data returned for the selected address.")
        /\ UNCHANGED <<self, attempts, search_query, postcode, attempt, seen, addresses,
                       selected, result>>

\* lines 205-211: fetch returns the sorted entries
ScheduleReturn ==
    /\ pc = "schedule"
    /\ \E response \in WasteResponses :
        /\ ~RaisesForStatus(response)
        /\ \E built \in {response.built} :
               /\ built.ok
               /\ ~NoEntries(built.entries)
               /\ entries' = built.entries
               /\ result' = SortByDate(built.entries)
        /\ IssueWaste(response)
        /\ payload' = response.payload
        /\ pc' = "done"
        /\ UNCHANGED <<self, attempts, search_query, postcode, attempt, seen, addresses,
                       selected, error>>

Next ==
    \/ Start
    \/ LookupSkipBlank
    \/ LookupSkipSeen
    \/ LookupHttpError
    \/ LookupNoList
    \/ LookupReturn
    \/ LookupExhausted
    \/ SelectNoCandidates
    \/ SelectNoUprn
    \/ SelectAddress
    \/ ScheduleHttpError
    \/ ScheduleRaises
    \/ ScheduleEmpty
    \/ ScheduleReturn

Spec == Init /\ [][Next]_vars

\* fetch is one sequential call: each of its steps is taken, and every GET
\* ends, with a response or with an exception (timeout=REQUEST_TIMEOUT),
\* which status "error" stands for.
LiveSpec == Spec /\ WF_vars(Next)

-----------------------------------------------------------------------------
(* normalise_postcode on its own: fetch up to line 197, for a Source that  *)
(* has only a postcode, drawn from every text of at most MaxText           *)
(* characters over a lower-case letter, an upper-case letter, a digit and  *)
(* a space.                                                                *)

PostcodeAlphabet == {"s", "G", "4", " "}
PostcodeTexts == UNION {[1..n -> PostcodeAlphabet] : n \in 0..MaxText}
PostcodeInputs == {None} \cup {Some(t) : t \in PostcodeTexts}

PostcodeInit ==
    /\ self \in {Source(None, None, None, p) : p \in PostcodeInputs}
    /\ pc = "start"
    /\ search_query = <<>>
    /\ postcode = None
    /\ attempts = <<>>
    /\ attempt = 1
    /\ seen = {}
    /\ requests = <<>>
    /\ replies = <<>>
    /\ addresses = <<>>
    /\ selected = EmptyDict
    /\ payload = NoPayload
    /\ entries = <<>>
    /\ result = <<>>
    /\ error = ""

PostcodeNext == Start

PostcodeSpec == PostcodeInit /\ [][PostcodeNext]_vars

-----------------------------------------------------------------------------
(* Properties of the address search, _lookup_addresses.                    *)

\* the requests sent to the address search, in order
AddressRequests == SelectSeq(requests, LAMBDA r : r.endpoint = "addresses")

\* (parameter name, lower-cased trimmed text) of a request
RequestKey(r) == <<r.param, Lower(Strip(r.text))>>

\* the entries of `attempts` as [param, text], text trimmed
TrimmedOf(list) ==
    [i \in 1..Len(list) |->
        [param |-> list[i].param,
         text |-> Strip(IF list[i].value.some THEN list[i].value.s ELSE <<>>)]]

\* the entries of a trimmed list that are neither blank nor a repeat of an
\* earlier entry (same parameter, same text up to case), in order
DistinctOf(list) ==
    SelectSeq([i \in 1..Len(list) |-> [param |-> list[i].param, text |-> list[i].text,
                                       at |-> i]],
              LAMBDA e : /\ e.text # <<>>
                         /\ <<e.param, Lower(e.text)>> \notin
                               {<<list[j].param, Lower(list[j].text)>> :
                                   j \in 1..(e.at - 1)})
\* for each Source, what its search chain may send, in order: the distinct
\* non-blank entries of the attempts built from its fragments
DistinctAttempts ==
    [this \in Sources |->
        DistinctOf(TrimmedOf(AttemptsOf(this, _compose_search_query(this),
                                        normalise_postcode(this._address_postcode))))]

\* sent is the start of order
SentInOrder(sent, order) ==
    /\ Len(sent) <= Len(order)
    /\ \A i \in 1..Len(sent) :
          sent[i].param = order[i].param /\ sent[i].text = order[i].text

\* the chain has returned a list to fetch
Returned ==
    /\ AddressRequests # <<>>
    /\ replies[Len(AddressRequests)].status = "ok"
    /\ replies[Len(AddressRequests)].has_list

NoRepeat(sent) ==
    Cardinality({RequestKey(sent[i]) : i \in 1..Len(sent)}) = Len(sent)

\* every fragment is absent or white space
AllBlank ==
    \A part \in {self._address_name_numer, self._address_street, self._street_town,
                 self._address_postcode} : ~part.some \/ Strip(part.s) = <<>>

\* C2: no two address searches of one resolution have the same (parameter
\* name, lower-cased trimmed text); none has blank text; an all-blank input
\* issues no request and fails in the search stage.
C2_NoRepeatNoBlank ==
    /\ NoRepeat(AddressRequests)
    /\ \A i \in 1..Len(AddressRequests) : Strip(AddressRequests[i].text) # <<>>
    /\ AllBlank =>
          /\ requests = <<>>
          /\ pc \in {"start", "lookup", "failed"}
          /\ pc = "failed" => error = "No matching addresses were returned by the API."

\* the whole chain ran, some entries were repeats and were not sent again
C2_Witness ==
    /\ pc = "failed"
    /\ attempt > Len(attempts)
    /\ Len(AddressRequests) >= 3
    /\ Len(AddressRequests) < Len(attempts)
    /\ \A i \in 1..Len(attempts) : Cleaned(attempts[i]) # <<>>

\* C3: a non-success response ends the resolution at once: it is the last
\* response, nothing is requested after it (no further search, no schedule
\* request, no retry), and fetch returns no records.
C3_FailsAtOnce ==
    \A i \in 1..Len(replies) :
        replies[i].status = "error" =>
            /\ i = Len(replies)
            /\ Len(requests) = i
            /\ pc = "failed"
            /\ error = "HTTPError"
            /\ result = <<>>

\* the schedule request failed after a search that went on past its first
\* answer
C3_Witness ==
    /\ Len(requests) >= 3
    /\ requests[Len(requests)].endpoint = "wastecollections"
    /\ replies[Len(replies)].status = "error"
    /\ pc = "failed"

-----------------------------------------------------------------------------
(* Properties of the choice among candidates, _select_address.             *)

\* score of a candidate of the current resolution
ScoreOf(address) == Score(self, address, search_query, postcode)
\* the scores of the candidates of the list returned by the search
Scores == [i \in 1..Len(addresses) |-> ScoreOf(addresses[i])]

\* _select_address has returned an address
HasSelected == selected # EmptyDict
\* fetch is at line 201: _select_address has just returned
AfterSelect ==
    HasSelected /\ (pc = "schedule" \/ error = "Selected address does not expose a UPRN.")

\* chosen is the element of list of lowest index among those of maximal score
FirstOfBest(list, scores, chosen) ==
    \E i \in 1..Len(list) :
        /\ chosen = list[i]
        /\ \A j \in 1..Len(list) : scores[j] <= scores[i]
        /\ \A j \in 1..(i - 1) : scores[j] < scores[i]

\* chosen is the first element of list if every score is 0
FirstIfAllZero(list, scores, chosen) ==
    (\A j \in 1..Len(list) : scores[j] = 0) => chosen = list[1]

\* C4: the address chosen from a non-empty list is the element of lowest
\* index among those of maximal score, the first element when every score is
\* 0; an empty list ends fetch with the 'no results' error.
C4_FirstOfBest ==
    /\ AfterSelect =>
          /\ FirstOfBest(addresses, Scores, selected)
          /\ FirstIfAllZero(addresses, Scores, selected)
    /\ Returned /\ addresses = <<>> /\ pc # "select" =>
          /\ pc = "failed"
          /\ error = "Address lookup returned no results."
          /\ ~HasSelected

\* two candidates tie on a positive score and the first was chosen
C4_Witness ==
    /\ AfterSelect
    /\ Len(addresses) = 2
    /\ ScoreOf(addresses[1]) = ScoreOf(addresses[2])
    /\ ScoreOf(addresses[1]) > 0
    /\ selected = addresses[1]

\* the signals of the scoring that fire for a candidate with the given text
SignalsIn(address, text, candidate_postcode) ==
    [postcode_equal |-> /\ Truthy(postcode)
                        /\ Truthy(candidate_postcode)
                        /\ Lower(candidate_postcode.s) = Lower(postcode.s),
     postcode_in_text |-> Truthy(postcode) /\ Contains(Lower(postcode.s), text),
     street |-> /\ Truthy(self._address_street)
                /\ Contains(Lower(self._address_street.s), text),
     number |-> /\ Truthy(self._address_name_numer)
                /\ WholeWord(Lower(Strip(self._address_name_numer.s)), text),
     town |-> Truthy(self._street_town) /\ Contains(Lower(self._street_town.s), text),
     query |-> search_query # <<>> /\ Contains(Lower(search_query), text)]

Signals(address) ==
    SignalsIn(address, Lower(_address_to_string(address)),
              normalise_postcode(AddrGet(address, "postcode")))

\* only the postcode-equal and street signals fire
OnlyPostcodeAndStreet(sig) ==
    /\ sig.postcode_equal /\ sig.street
    /\ ~sig.number /\ ~sig.town /\ ~sig.query
\* only the composed-query signal fires
OnlyQuery(sig) ==
    /\ sig.query
    /\ ~sig.postcode_equal /\ ~sig.postcode_in_text /\ ~sig.street
    /\ ~sig.number /\ ~sig.town

Weight(fires, weight) == IF fires THEN weight ELSE 0

\* score is the sum section 4.4 gives for the signals sig
IsSumOfWeights(sig, score) ==
    /\ score = (IF sig.postcode_equal THEN 100
                ELSE IF sig.postcode_in_text THEN 60 ELSE 0)
               + Weight(sig.street, 30) + Weight(sig.number, 25)
               + Weight(sig.town, 15) + Weight(sig.query, 10)
    /\ OnlyPostcodeAndStreet(sig) => score = 130
    /\ OnlyQuery(sig) => score = 10

\* of a postcode-and-street candidate and a query-only candidate of the list,
\* the first kind is preferred
PrefersPostcodeAndStreet(list, sigs, scores, chosen) ==
    \A i, j \in 1..Len(list) :
        OnlyPostcodeAndStreet(sigs[i]) /\ OnlyQuery(sigs[j]) =>
            /\ chosen # list[j]
            /\ \E k \in 1..Len(list) : chosen = list[k] /\ scores[k] >= 130
            /\ Len(list) = 2 => chosen = list[i]

\* C5: a candidate's score is the sum of the weights of the signals that
\* fire (street 30, number 25, town 15, query 10) plus 100 when the postcodes
\* are equal, else 60 when the postcode is in the text, else 0; so postcode
\* and street alone score 130, the query alone 10, and of two such
\* candidates the first kind is chosen.
C5_AdditiveScore ==
    /\ pc = "select" =>
          \A i \in 1..Len(addresses) :
              IsSumOfWeights(Signals(addresses[i]), ScoreOf(addresses[i]))
    /\ AfterSelect =>
          PrefersPostcodeAndStreet(addresses,
              [i \in 1..Len(addresses) |-> Signals(addresses[i])], Scores, selected)

\* the list holds a candidate of each kind, the query-only one first, and
\* the other was chosen
C5_Witness ==
    /\ AfterSelect
    /\ Len(addresses) = 2
    /\ OnlyQuery(Signals(addresses[1]))
    /\ OnlyPostcodeAndStreet(Signals(addresses[2]))
    /\ ScoreOf(addresses[1]) = 10
    /\ ScoreOf(addresses[2]) = 130
    /\ selected = addresses[2]

-----------------------------------------------------------------------------
(* Properties of the schedule normalisation, _build_collections and the    *)
(* end of fetch.                                                           *)

\* no two records of list have the same (date, label)
DistinctPairs(list) ==
    \A i, j \in 1..Len(list) :
        list[i].date = list[j].date /\ list[i].t = list[j].t => i = j

\* C6: the list _build_collections returns, and so the list fetch returns,
\* holds no two records with the same (date, label), however many blocks or
\* date fields of a block yield that pair.
C6_NoDuplicatePair ==
    /\ DistinctPairs(entries)
    /\ DistinctPairs(result)

\* two blocks labelled "Refuse" both yield 2024-03-01, the first of them from
\* two of its date fields, and the pair was emitted once
C6_Witness ==
    /\ pc = "done"
    /\ payload.collections = <<>>
    /\ Len(payload.items) = 1
    /\ payload.items[1].value = List(<<FirstRefuse, Obj(EmptyDict), SecondRefuse>>)
    /\ 20240301 \in ParsedDates(DateValues(FirstRefuse.f))
    /\ 20240301 \in ParsedDates(DateValues(SecondRefuse.f))
    /\ Len(SelectSeq(entries, LAMBDA e : e.date = 20240301 /\ e.t = <<"R", "e", "f", "u", "s", "e">>)) = 1
    /\ Len(entries) = 2

\* list is in ascending order of date
Ascending(list) == \A i, j \in 1..Len(list) : i < j => list[i].date <= list[j].date

\* the records of a list, as a set
Records(list) == {list[i] : i \in 1..Len(list)}

\* C7: the list fetch returns is in ascending order of date, and holds the
\* records the normaliser emitted, whatever the order of the blocks and of
\* the date fields of a block.
C7_SortedByDate ==
    /\ pc = "done" =>
          /\ result # <<>>
          /\ Ascending(result)
          /\ Len(result) = Len(entries)
          /\ Records(result) = Records(entries)
    /\ pc # "done" => result = <<>>

\* the normaliser emitted a later date before an earlier one
C7_Witness ==
    /\ pc = "done"
    /\ \E i, j \in 1..Len(entries) : i < j /\ entries[i].date > entries[j].date
    /\ Ascending(result)

\* {"RefuseCollectionDetails": {"collectionDate": "2024-03-04"},
\*  "RecyclingCollectionDetails": {"nextCollection": {"date": "2024-03-01"}}}
ExamplePayload ==
    [wrapper |-> "", collections |-> <<>>,
     items |-> <<[key |-> <<"R", "e", "f", "u", "s", "e", "C", "o", "l", "l", "e", "c", "t", "i", "o", "n", "D", "e", "t", "a", "i", "l", "s">>, value |-> RefuseBlock],
                 [key |-> <<"R", "e", "c", "y", "c", "l", "i", "n", "g", "C", "o", "l", "l", "e", "c", "t", "i", "o", "n", "D", "e", "t", "a", "i", "l", "s">>, value |-> RecyclingBlock]>>]

\* the (key, details) pairs of the payload received
PayloadPairs == _collection_items(CollectionData(payload))

\* the blocks sit under suffixed top-level keys and none carries a
\* descriptive-label field
SuffixKeyedWithoutLabels(pairs) ==
    /\ payload.collections = <<>>
    /\ \A i \in 1..Len(pairs) :
          /\ pairs[i].value.k = "obj"
          /\ DOMAIN pairs[i].value.f
                \cap {"containerDescription", "containerName", "collectionType"} = {}

\* C8 as stated: the label of a block under '<Category>CollectionDetails' is
\* the bare category name; the example payload yields 'Recycling' and 'Refuse'.
C8_BareCategoryLabel ==
    pc = "done" /\ payload = ExamplePayload =>
        result = <<Collection(20240301, <<"R", "e", "c", "y", "c", "l", "i", "n", "g">>, "mdi:recycle"),
                   Collection(20240304, <<"R", "e", "f", "u", "s", "e">>, "mdi:trash-can")>>

\* every label of list is the key of one of the pairs
LabelsAreKeys(list, pairs) ==
    \A i \in 1..Len(list) : \E k \in 1..Len(pairs) : list[i].t = pairs[k].key

\* C8, amended: for a payload whose blocks sit under top-level keys
\* '<Category>CollectionDetails' and carry no descriptive-label field, each
\* record's label is the whole key, suffix included; the example payload
\* yields exactly [(2024-03-01, 'RecyclingCollectionDetails', recycle icon),
\* (2024-03-04, 'RefuseCollectionDetails', trash-can icon)].
C8_WholeKeyLabel ==
    /\ pc = "done" /\ SuffixKeyedWithoutLabels(PayloadPairs) =>
          LabelsAreKeys(result, PayloadPairs)
    /\ pc = "done" /\ payload = ExamplePayload =>
          result = <<Collection(20240301, <<"R", "e", "c", "y", "c", "l", "i", "n", "g", "C", "o", "l", "l", "e", "c", "t", "i", "o", "n", "D", "e", "t", "a", "i", "l", "s">>, "mdi:recycle"),
                     Collection(20240304, <<"R", "e", "f", "u", "s", "e", "C", "o", "l", "l", "e", "c", "t", "i", "o", "n", "D", "e", "t", "a", "i", "l", "s">>, "mdi:trash-can")>>

\* fetch has returned the records of the example payload
C8_Witness ==
    /\ pc = "done"
    /\ payload = ExamplePayload
    /\ SuffixKeyedWithoutLabels(PayloadPairs)
    /\ Len(result) = 2

\* C9 as stated: no date value makes the normaliser fail; a schedule document
\* that was received is normalised, its unparseable values dropped.
C9_DatesNeverFail ==
    /\ error # "AttributeError"
    /\ payload # NoPayload /\ pc = "failed" =>
          error = "No collection data returned for the selected address."

\* the requests sent to the schedule endpoint, with their position
WasteRequestsAt == {i \in 1..Len(requests) : requests[i].endpoint = "wastecollections"}

\* C10: when the chosen address has no UPRN, or an empty one, fetch fails
\* with the missing-UPRN error and no schedule request is sent; a schedule
\* request is sent only after an address with a non-empty UPRN was chosen
\* from the list, is the last request, and carries that UPRN.
C10_UprnGate ==
    /\ HasSelected /\ ~Truthy(AddrGet(selected, "uprn")) =>
          /\ pc = "failed"
          /\ error = "Selected address does not expose a UPRN."
          /\ WasteRequestsAt = {}
    /\ ~HasSelected => WasteRequestsAt = {}
    /\ error = "Selected address does not expose a UPRN." =>
          HasSelected /\ ~Truthy(AddrGet(selected, "uprn"))
    /\ \A i \in WasteRequestsAt :
          /\ i = Len(requests)
          /\ pc \in {"done", "failed"}
          /\ Truthy(AddrGet(selected, "uprn"))
          /\ requests[i].text = selected.uprn
          /\ \E k \in 1..Len(addresses) : addresses[k] = selected

\* of two candidates the one chosen has an empty UPRN, and fetch failed
\* without a schedule request
C10_Witness ==
    /\ pc = "failed"
    /\ error = "Selected address does not expose a UPRN."
    /\ Len(addresses) = 2
    /\ AddrGet(selected, "uprn") = Some(<<>>)
    /\ WasteRequestsAt = {}

-----------------------------------------------------------------------------
(* Properties of the end of fetch.                                         *)

\* a schedule document was received and normalised without an exception
Normalised ==
    /\ WasteRequestsAt # {}
    /\ replies[Len(replies)].status = "ok"
    /\ error # "AttributeError"

\* the payload has no block, only empty blocks, or only blocks without a
\* date that parses
NoRecords(pairs) ==
    \A i \in 1..Len(pairs) :
        \/ ~TruthyV(pairs[i].value)
        \/ /\ ~NextCollectionRaises(pairs[i].value.f)
           /\ ParsedDates(DateValues(pairs[i].value.f)) = {}

\* C11: fetch never returns an empty list: when the schedule payload
\* normalises to no record (no block, only empty blocks, only unparseable
\* dates), fetch ends with the 'no collection data' error and returns
\* nothing.
C11_NeverReturnsEmpty ==
    /\ pc = "done" => result # <<>>
    /\ Normalised /\ (entries = <<>> \/ NoRecords(PayloadPairs)) =>
          /\ pc = "failed"
          /\ error = "No collection data returned for the selected address."
          /\ entries = <<>>
          /\ result = <<>>

\* the payload held one block, with dates that do not parse, and fetch
\* failed for lack of collection data
C11_Witness ==
    /\ pc = "failed"
    /\ error = "No collection data returned for the selected address."
    /\ Normalised
    /\ Len(PayloadPairs) = 1
    /\ PayloadPairs[1].value = Unparseable
    /\ NoRecords(PayloadPairs)

-----------------------------------------------------------------------------
(* Properties of normalise_postcode, stated without the search of the      *)
(* pattern: a postcode is an outward code (one or two letters, a digit,    *)
(* at most one more letter or digit) and an inward code (a digit and two   *)
(* letters), with any number of spaces between them.                       *)

\* text without its spaces
Squeeze(text) == SelectSeq(text, LAMBDA c : ~IsSpace(c))

\* o is an outward code
IsOutward(o) ==
    \/ Len(o) = 2 /\ IsAlpha(o[1]) /\ IsDigit(o[2])
    \/ Len(o) = 3 /\ IsAlpha(o[1]) /\ IsAlpha(o[2]) /\ IsDigit(o[3])
    \/ Len(o) = 3 /\ IsAlpha(o[1]) /\ IsDigit(o[2]) /\ IsAlnum(o[3])
    \/ Len(o) = 4 /\ IsAlpha(o[1]) /\ IsAlpha(o[2]) /\ IsDigit(o[3]) /\ IsAlnum(o[4])

\* n is an inward code
IsInward(n) == Len(n) = 3 /\ IsDigit(n[1]) /\ IsAlpha(n[2]) /\ IsAlpha(n[3])

OutwardOf(c) == SubSeq(c, 1, Len(c) - 3)
InwardOf(c) == SubSeq(c, Len(c) - 2, Len(c))

\* text, whose characters other than spaces are c, is a postcode: its
\* spaces, if any, all stand between the outward and the inward code
IsPostcode(text, c) ==
    /\ Len(c) \in 5..7
    /\ IsOutward(OutwardOf(c))
    /\ IsInward(InwardOf(c))
    /\ SubSeq(text, 1, Len(c) - 3) = OutwardOf(c)
    /\ SubSeq(text, Len(text) - 2, Len(text)) = InwardOf(c)

ValidPostcode(text) == IsPostcode(text, Squeeze(text))

\* upper-case outward code, one space, upper-case inward code
CanonicalOf(c) == Upper(OutwardOf(c)) \o <<" ">> \o Upper(InwardOf(c))

\* text is in canonical form
IsCanonical(text) ==
    ValidPostcode(text) /\ Len(text) = Len(Squeeze(text)) + 1 /\ Upper(text) = text

\* some part of text is a postcode
PostcodeOccurs(text) ==
    \E i \in 1..Len(text) : \E j \in i..Len(text) : ValidPostcode(SubSeq(text, i, j))

\* normalise_postcode has been applied to the postcode fragment, line 197
Normalised_postcode == pc # "start"

\* C12: a postcode written with or without spaces between its two codes,
\* in any letter case, is normalised to the upper-case outward code, one
\* space and the upper-case inward code; whatever is returned has that form;
\* nothing is returned exactly when no postcode occurs in the text (or there
\* is no text); and normalising the result returns it unchanged.
C12_CanonicalPostcode ==
    Normalised_postcode =>
        /\ self._address_postcode.some /\ ValidPostcode(self._address_postcode.s) =>
              postcode = Some(CanonicalOf(Squeeze(self._address_postcode.s)))
        /\ postcode.some => IsCanonical(postcode.s)
        /\ postcode.some <=>
              self._address_postcode.some /\ PostcodeOccurs(self._address_postcode.s)
        /\ postcode.some => normalise_postcode(postcode) = postcode

\* a postcode written in mixed case without a space was normalised
C12_Witness ==
    /\ Normalised_postcode
    /\ self._address_postcode = Some(<<"s", "G", "4", "4", "s", "G">>)
    /\ postcode = Some(<<"S", "G", "4", " ", "4", "S", "G">>)
    /\ normalise_postcode(Some(<<"S", "g", "4", " ", "4", "S", "g">>)) = postcode
    /\ normalise_postcode(postcode) = postcode

-----------------------------------------------------------------------------
(* Termination of fetch and the requests it may send.                      *)

\* fetch has returned or raised
Ended == pc \in {"done", "failed"}

\* at most 7 address searches and 1 schedule request, the schedule request
\* after every address search
RequestBudget ==
    /\ Len(AddressRequests) <= 7
    /\ Cardinality(WasteRequestsAt) <= 1
    /\ Len(requests) = Len(AddressRequests) + Cardinality(WasteRequestsAt)
    /\ \A i \in WasteRequestsAt : i = Len(AddressRequests) + 1

\* fetch ends with a list of records or with an error, not both
ReturnedOrFailed ==
    /\ pc = "done" => result # <<>> /\ error = ""
    /\ pc = "failed" => result = <<>> /\ error # ""
    /\ ~Ended => result = <<>> /\ error = ""

\* C13: every run of fetch ends, whatever the fragments and the responses,
\* with a list of records or with an error; nothing happens after the end;
\* it sends at most 7 address searches and at most 1 schedule request, the
\* schedule request after the last address search.
C13_Terminates ==
    /\ [](RequestBudget /\ ReturnedOrFailed)
    /\ [][~Ended]_vars
    /\ <>Ended

\* all 7 attempts were sent, the last was answered with a list, and the
\* schedule request followed
C13_Witness ==
    /\ pc = "done"
    /\ Len(AddressRequests) = 7
    /\ WasteRequestsAt = {8}
    /\ result # <<>>

=============================================================================
